---- MODULE Spec2Model ----
(***************************************************************************)
(* cards.py: the image-field expander, the placeholder substitution and    *)
(* the card/page loop of main, modelled from src/cards.py.                 *)
(*                                                                         *)
(* Text is modelled by TLA+ strings (Len, SubSeq and \o act on them as on  *)
(* sequences of characters).  Positions keep Python's convention: indices  *)
(* start at 0, a slice s[a:b] excludes b, and a failed search gives -1.    *)
(***************************************************************************)
EXTENDS Integers, Sequences, FiniteSets, TLC

VARIABLES
    value,      \* expander: the argument of the outermost call
    string,     \* expander: the local `string` of the innermost call
    depth,      \* expander: number of nested recursive calls made so far
    pc,         \* expander: "call" | "returned" | "raised" | "idle"
    exc,        \* expander: the exception raised, "none" when there is none
    data,       \* render: the record, a list of <<field, value>> in record order
    template,   \* render: the template argument
    content,    \* render: the local `content`
    visited,    \* render: number of fields the loop has taken from `data`
    field_value,\* render: the local `field_value` of the last substituted field
    rpc,        \* render: "loop" | "returned" | "raised" | "idle"
    rexc,       \* render: the exception that escaped, "none" when there is none
    result,     \* render: the returned text (meaningful when rpc = "returned")
    rows,       \* main: the rows csv.DictReader yields, each a record
    row_index,  \* main: number of rows taken from `data`
    count,      \* main: the local `count` of the current row
    i,          \* main: number of cards generated for the current row
    cards,      \* main: the card contents gathered for the page being filled
    pages,      \* main: the emitted pages, each the list of its card contents
    cards_on_page,
    cards_on_all_pages,
    pages_total,
    mpc,        \* main: "rows" | "cards" | "done" | "raised" | "idle"
    mexc        \* main: the exception that escaped, "none" when there is none

xvars == <<value, string, depth, pc, exc>>
rvars == <<data, template, content, visited, field_value, rpc, rexc, result>>
mvars == <<rows, row_index, count, i, cards, pages, cards_on_page,
           cards_on_all_pages, pages_total, mpc, mexc>>
vars == <<xvars, rvars, mvars>>

-----------------------------------------------------------------------------
(* Python string primitives.  What recurses is written as a function, so   *)
(* that every step works on values; the operator of the same purpose       *)
(* carries the Python name.                                                *)

\* s[a:b] for 0 <= a, with b clipped to the length as Python does
Slice(s, a, b) == SubSeq(s, a + 1, IF b > Len(s) THEN Len(s) ELSE b)

\* s[at:at+len(sub)] == sub
OccursAt(s, sub, at) ==
    at >= 0 /\ at + Len(sub) <= Len(s) /\ Slice(s, at, at + Len(sub)) = sub

\* leftmost index >= pos at which sub occurs in s, -1 when there is none
FindFrom[s \in STRING, sub \in STRING, pos \in Int] ==
    IF pos + Len(sub) > Len(s) THEN -1
    ELSE IF OccursAt(s, sub, pos) THEN pos
    ELSE FindFrom[s, sub, pos + 1]

Find(s, sub, pos) == FindFrom[s, sub, pos]

\* the last index <= pos at which sub occurs in s, -1 when there is none
RFindFrom[s \in STRING, sub \in STRING, pos \in Int] ==
    IF pos < 0 THEN -1
    ELSE IF OccursAt(s, sub, pos) THEN pos
    ELSE RFindFrom[s, sub, pos - 1]

\* str.rfind
rfind(s, sub) == RFindFrom[s, sub, Len(s) - Len(sub)]

\* str.split(sep): the list of the parts of s between the occurrences of sep
SplitParts[s \in STRING, sep \in STRING] ==
    LET at == Find(s, sep, 0)
    IN  IF at = -1 THEN <<s>>
        ELSE <<Slice(s, 0, at)>> \o SplitParts[Slice(s, at + Len(sep), Len(s)), sep]

split(s, sep) == SplitParts[s, sep]

\* str.replace(old, new) for a non-empty old: every non-overlapping
\* occurrence of old, found left to right, is replaced by new
Replaced[s \in STRING, old \in STRING, new \in STRING] ==
    LET at == Find(s, old, 0)
    IN  IF at = -1 THEN s
        ELSE Slice(s, 0, at) \o new \o Replaced[Slice(s, at + Len(old), Len(s)), old, new]

replace(s, old, new) == Replaced[s, old, new]

\* str.startswith
startswith(s, prefix) == OccursAt(s, prefix, 0)

-----------------------------------------------------------------------------
(* int(text) and str(number)                                               *)

DecimalDigits == "0123456789"

Whitespace == {" ", "\n", "\t", "\r"}

\* the value of a digit character, -1 for any other character
DigitValue(c) == Find(DecimalDigits, c, 0)

lstrip[s \in STRING] ==
    IF Len(s) > 0 /\ Slice(s, 0, 1) \in Whitespace THEN lstrip[Slice(s, 1, Len(s))] ELSE s

rstrip[s \in STRING] ==
    IF Len(s) > 0 /\ Slice(s, Len(s) - 1, Len(s)) \in Whitespace
    THEN rstrip[Slice(s, 0, Len(s) - 1)] ELSE s

\* the digits of an integer literal: decimal digits, single underscores
\* allowed between two digits
IsDigitBody[s \in STRING, afterDigit \in BOOLEAN] ==
    IF Len(s) = 0 THEN afterDigit
    ELSE LET c == Slice(s, 0, 1)
         IN  IF DigitValue(c) >= 0 THEN IsDigitBody[Slice(s, 1, Len(s)), TRUE]
             ELSE c = "_" /\ afterDigit /\ IsDigitBody[Slice(s, 1, Len(s)), FALSE]

DigitBodyValue[s \in STRING, acc \in Int] ==
    IF Len(s) = 0 THEN acc
    ELSE LET c == Slice(s, 0, 1)
         IN  DigitBodyValue[Slice(s, 1, Len(s)),
                            IF c = "_" THEN acc ELSE 10 * acc + DigitValue(c)]

\* int(text): surrounding whitespace is dropped, one sign is allowed, the
\* rest must be a digit body; anything else raises ValueError
int(text) ==
    LET Literal(sign, body) ==
            IF Len(body) > 0 /\ IsDigitBody[body, FALSE]
            THEN [raised |-> FALSE, val |-> sign * DigitBodyValue[body, 0]]
            ELSE [raised |-> TRUE, val |-> 0]
        Stripped(t) ==
            IF Len(t) > 0 /\ Slice(t, 0, 1) = "-" THEN Literal(-1, Slice(t, 1, Len(t)))
            ELSE IF Len(t) > 0 /\ Slice(t, 0, 1) = "+" THEN Literal(1, Slice(t, 1, Len(t)))
            ELSE Literal(1, t)
    IN  Stripped(rstrip[lstrip[text]])

\* the decimal digits of n >= 0
Decimal[n \in Nat] ==
    IF n < 10 THEN Slice(DecimalDigits, n, n + 1)
    ELSE Decimal[n \div 10] \o Slice(DecimalDigits, (n % 10), (n % 10) + 1)

\* str(n), also what '{0}'.format(n) writes for an int
str(n) == IF n < 0 THEN "-" \o Decimal[0 - n] ELSE Decimal[n]

-----------------------------------------------------------------------------
(* replace_image_fields_with_image_tags                                    *)

\* the matches of '{{(.*?)}}' with re.DOTALL in s from position pos on, left
\* to right and non-overlapping.  A match starts at the first "{{" and, the
\* group being non-greedy and '.' matching every character, ends with the
\* first "}}" that follows the opening delimiter.
MatchesFrom[s \in STRING, pos \in Int] ==
    LET start == Find(s, "{{", pos)
        close == IF start = -1 THEN -1 ELSE Find(s, "}}", start + 2)
    IN  IF close = -1 THEN <<>>
        ELSE <<[start |-> start, end |-> close + 2, group |-> Slice(s, start + 2, close)]>>
             \o MatchesFrom[s, close + 2]

\* re.finditer('{{(.*?)}}', string, re.DOTALL)
finditer(s) == MatchesFrom[s, 0]

\* a variant whose loop gives up at an empty span
FirstImageUnlessEmpty(matches) ==
    IF Len(matches) > 0 /\ Len(matches[1].group) > 0 THEN <<matches[1]>> ELSE <<>>

\* the match the loop body acts on: the first one whose group is not empty
\* (the loop passes over the others, and breaks after this one); <<>> when
\* there is none
FirstImage(matches) ==
    IF \E k \in 1..Len(matches) : Len(matches[k].group) > 0
    THEN <<matches[CHOOSE k \in 1..Len(matches) :
                       /\ Len(matches[k].group) > 0
                       /\ \A j \in 1..(k - 1) : Len(matches[j].group) = 0]>>
    ELSE <<>>

\* a variant that writes the height before the width
SizedImageTagSwapped(path, width, height) ==
    "<img src=\"" \o path \o "\" width=\"" \o str(height) \o "\" height=\"" \o str(width) \o "\">"

\* '<img src="{0}" width="{1}" height="{2}">'.format(path, width, height)
SizedImageTag(path, width, height) ==
    "<img src=\"" \o path \o "\" width=\"" \o str(width) \o "\" height=\"" \o str(height) \o "\">"

\* a variant that keeps the size suffix in the path
WholeImagePath(image_path, size_index) == image_path

\* image_path[:size_index]
PathBeforeSize(image_path, size_index) == Slice(image_path, 0, size_index)

\* '<img src="{0}">'.format(image_path)
PlainImageTag(image_path) == "<img src=\"" \o image_path \o "\">"

\* the body of the loop up to the splice: the value of image_tag, or the
\* exception raised on the way (int() raises ValueError; image_tag is read
\* at the splice without having been assigned: UnboundLocalError)
image_tag(image_path) ==
    LET Unbound == [exc |-> "UnboundLocalError", tag |-> ""]
        \* lines 44-58, the two texts of the size converted
        WithDimensions(size_index, explicit_width, explicit_height) ==
            IF explicit_width.raised \/ explicit_height.raised
            THEN [exc |-> "ValueError", tag |-> ""]
            ELSE IF explicit_width.val >= 0 /\ explicit_height.val >= 0
            THEN [exc |-> "none",
                  tag |-> SizedImageTag(PathBeforeSize(image_path, size_index),
                                        explicit_width.val, explicit_height.val)]
            ELSE Unbound
        \* lines 43-58, the text after the last ':' split on 'x'
        WithSize(size_index, size) ==
            IF Len(size) > 1
            THEN WithDimensions(size_index, int(size[1]), int(size[2]))
            ELSE Unbound
        \* lines 39-60
        WithIndex(size_index) ==
            IF size_index /= -1
            THEN WithSize(size_index,
                          split(Slice(image_path, size_index + 1, Len(image_path)), "x"))
            ELSE [exc |-> "none", tag |-> PlainImageTag(image_path)]
    IN  WithIndex(rfind(image_path, ":"))

\* string[:match.start()] + image_tag + string[match.end():]
Splice(s, match, tag) == Slice(s, 0, match.start) \o tag \o Slice(s, match.end, Len(s))

\* one activation of the function up to its recursive call: "return" when
\* the loop finds no non-empty span, "recurse" with the spliced string, or
\* "raise" with the exception
Activation[s \in STRING] ==
    LET Spliced(match, t) ==
            IF t.exc /= "none" THEN [step |-> "raise", exc |-> t.exc, string |-> s]
            ELSE [step |-> "recurse", exc |-> "none", string |-> Splice(s, match, t.tag)]
        Acted(found) ==
            IF found = <<>> THEN [step |-> "return", exc |-> "none", string |-> s]
            ELSE Spliced(found[1], image_tag(found[1].group))
    IN  Acted(FirstImage(finditer(s)))

OnePass(s) == Activation[s]

\* the activations one after the other, until one returns or raises
Expanded[s \in STRING] ==
    LET After(p) ==
            IF p.step = "recurse" THEN Expanded[p.string]
            ELSE [exc |-> p.exc, string |-> p.string]
    IN  After(OnePass(s))

\* the whole function: the returned string, or the exception that escapes
replace_image_fields_with_image_tags(s) == Expanded[s]

-----------------------------------------------------------------------------
(* content_from_template                                                   *)

\* a record field is a pair <<name, text>>
FieldName(field) == field[1]
FieldText(field) == field[2]

\* a variant that treats no column as special
NeverSpecial(name) == FALSE

\* field.startswith('@'): the special variable columns
IsSpecial(name) == startswith(name, "@")

\* a variant that looks for the bare field name
BarePlaceholder(name) == name

\* '{{%s}}' % str(field)
Placeholder(name) == "{{" \o name \o "}}"

\* the body of the loop for one field: the new content and field_value, or
\* the exception that escapes from the expander
FieldVisit[field \in STRING \X STRING, text \in STRING] ==
    LET Populated(expanded) ==
            IF expanded.exc /= "none"
            THEN [exc |-> expanded.exc, skipped |-> FALSE, content |-> text, field_value |-> ""]
            ELSE [exc |-> "none", skipped |-> FALSE,
                  content |-> replace(text, Placeholder(FieldName(field)), expanded.string),
                  field_value |-> expanded.string]
    IN  IF IsSpecial(FieldName(field))
        THEN [exc |-> "none", skipped |-> TRUE, content |-> text, field_value |-> ""]
        ELSE Populated(replace_image_fields_with_image_tags(FieldText(field)))

\* a variant that swallows the expander's exception and substitutes the
\* unexpanded text
VisitFieldSwallowing(field, text) ==
    IF FieldVisit[field, text].exc = "none" THEN FieldVisit[field, text]
    ELSE [exc |-> "none", skipped |-> FALSE,
          content |-> replace(text, Placeholder(FieldName(field)), FieldText(field)),
          field_value |-> FieldText(field)]

VisitField(field, text) == FieldVisit[field, text]

\* the loop over the fields from the k-th on, in record order
SubstituteFrom[record \in Seq(STRING \X STRING), text \in STRING, k \in Nat] ==
    LET After(v) ==
            IF v.exc /= "none" THEN [exc |-> v.exc, content |-> ""]
            ELSE SubstituteFrom[record, v.content, k + 1]
    IN  IF k > Len(record) THEN [exc |-> "none", content |-> text]
        ELSE After(VisitField(record[k], text))

\* the whole function: the returned content, or the exception that escapes
content_from_template(record, text) == SubstituteFrom[record, text, 1]

-----------------------------------------------------------------------------
(* main: the count of a row and the content of a card                      *)

max_cards_per_page == 9

\* args['version_identifier'], by default ''
version_identifier == ""

HasField(record, name) == \E k \in 1..Len(record) : FieldName(record[k]) = name

GetField(record, name) ==
    FieldText(record[CHOOSE k \in 1..Len(record) : FieldName(record[k]) = name])

\* int(row.get('@count', 1)), then a negative count is treated as none
RowCount(row) ==
    LET Clamped(parsed) ==
            IF parsed.raised THEN [exc |-> "ValueError", count |-> 0]
            ELSE [exc |-> "none", count |-> IF parsed.val < 0 THEN 0 ELSE parsed.val]
    IN  IF HasField(row, "@count") THEN Clamped(int(GetField(row, "@count")))
        ELSE [exc |-> "none", count |-> 1]

\* content_from_template, then {{card_index}} and {{version}} are filled in
CardContent(row, card_template, index) ==
    LET Indexed(rendered) ==
            IF rendered.exc /= "none" THEN rendered
            ELSE [exc |-> "none",
                  content |-> replace(replace(rendered.content, "{{card_index}}", str(index)),
                                      "{{version}}", version_identifier)]
    IN  Indexed(content_from_template(row, card_template))

-----------------------------------------------------------------------------
(* Inputs                                                                  *)

MaxSegments == 2
MaxFields == 2
MaxTemplateParts == 2
MaxRows == 3

RECURSIVE Concatenations(_, _)
Concatenations(parts, n) ==
    IF n = 0 THEN {""}
    ELSE LET shorter == Concatenations(parts, n - 1)
         IN  shorter \cup {s \o p : s \in shorter, p \in parts}

\* the values given to the expander: up to MaxSegments pieces, each a span
\* {{path suffix}} or a piece of plain text, and the values the documentation
\* names
ImagePaths == {"", "a", "{{"}

SizeSuffixes == {"", ":2x13", ":2x-1", ":16", ":axb", ":1x2x3"}

Segments ==
    {"{{" \o p \o s \o "}}" : p \in ImagePaths, s \in SizeSuffixes}
    \cup {"{{b:c:2x13}}", "{{a:01x 2}}"} \cup {"t", "}}", "{"}

DocumentedValues ==
    { "a/b.svg:16x16", "a/b.svg", "{{a/b.svg:16x16}}", "{{a/b.svg}}",
      "{{a/b.svg:-1x16}}", "{{http://host/a.png}}", "{{a.png:16}}",
      "{{a/b.svg:abcxdef}}", "{{img/a.png}} and {{img/b.png:8x8}}" }

Values == Concatenations(Segments, MaxSegments) \cup DocumentedValues

\* the records and templates given to content_from_template: up to MaxFields
\* fields with distinct names, templates of up to MaxTemplateParts pieces
FieldNames == {"a", "b", "@c"}

FieldTexts == {"Z", "{{b", "{{p:2x13}}", "{{p:wxh}}", "{{p:16}}"}

RECURSIVE RecordsOfLength(_)
RecordsOfLength(n) ==
    IF n = 0 THEN {<<>>}
    ELSE {Append(r, <<f, v>>) : r \in RecordsOfLength(n - 1),
                                f \in FieldNames, v \in FieldTexts}

DistinctNames(record) ==
    \A j, k \in 1..Len(record) : FieldName(record[j]) = FieldName(record[k]) => j = k

Records ==
    {r \in UNION {RecordsOfLength(n) : n \in 0..MaxFields} : DistinctNames(r)}

TemplateParts == {"{{a}}", "{{b}}", "{{@c}}", "}}"}

Templates == Concatenations(TemplateParts, MaxTemplateParts)

DocumentedTemplate == "Name: {{name}}, Art: {{art}}"

DocumentedRenders ==
    { <<<< <<"name", "Ace">>, <<"art", "cards/ace.png:32x32">> >>, DocumentedTemplate>>,
      <<<< <<"name", "Ace">>, <<"art", "{{cards/ace.png:32x32}}">> >>, DocumentedTemplate>>,
      <<<< <<"art", "a/b.svg:16x16">> >>, "{{art}}">>,
      <<<< <<"art", "a/b.svg">> >>, "{{art}}">>,
      <<<< <<"art", "{{a/b.svg:16x16}}">> >>, "{{art}}">>,
      <<<< <<"art", "{{a/b.svg}}">> >>, "{{art}}">>,
      <<<< <<"art", "{{a/b.svg:abcxdef}}">>, <<"name", "Ace">> >>, DocumentedTemplate>> }

Renders == (Records \X Templates) \cup DocumentedRenders

\* the tables given to main: up to MaxRows rows; the '@count' column is
\* present in every row of a table or in none (csv.DictReader gives every
\* row the header's fields); no table has an '@template' column
default_template == "{{name}} #{{card_index}} {{version}}"

CountTexts == {"-2", "0", "2", "9", "10", "x"}

CountedRows ==
    {<< <<"name", "A">>, <<"@count", c>> >> : c \in CountTexts}
    \cup {<< <<"name", "{{p:16}}">>, <<"@count", "1">> >>}

UncountedRows == {<< <<"name", "A">> >>, << <<"name", "{{p:wxh}}">> >>}

RECURSIVE Tables(_, _)
Tables(rowSet, n) ==
    IF n = 0 THEN {<<>>}
    ELSE LET shorter == Tables(rowSet, n - 1)
         IN  shorter \cup {Append(t, r) : t \in shorter, r \in rowSet}

AllTables == Tables(CountedRows, MaxRows) \cup Tables(UncountedRows, MaxRows)

-----------------------------------------------------------------------------
(* Initial states: one component runs, the others stay idle                *)

ExpandIdle == value = "" /\ string = "" /\ depth = 0 /\ pc = "idle" /\ exc = "none"

RenderIdle ==
    /\ data = <<>> /\ template = "" /\ content = "" /\ visited = 0
    /\ field_value = "" /\ rpc = "idle" /\ rexc = "none" /\ result = ""

MainIdle ==
    /\ rows = <<>> /\ row_index = 0 /\ count = 0 /\ i = 0 /\ cards = <<>>
    /\ pages = <<>> /\ cards_on_page = 0 /\ cards_on_all_pages = 0
    /\ pages_total = 0 /\ mpc = "idle" /\ mexc = "none"

-----------------------------------------------------------------------------
(* The expander as a state machine: one step per activation                *)

Init ==
    /\ value \in Values
    /\ string = value
    /\ depth = 0
    /\ pc = "call"
    /\ exc = "none"
    /\ RenderIdle /\ MainIdle

\* a variant without the recursive call: the spliced string is returned
SpliceAndReturn ==
    /\ pc = "call"
    /\ \E p \in {OnePass(string)} :
          /\ p.step = "recurse"
          /\ string' = p.string
    /\ depth' = depth + 1
    /\ pc' = "returned"
    /\ UNCHANGED <<value, exc, rvars, mvars>>

\* lines 28-66: a non-empty span is found, its tag is built and spliced in,
\* and the function calls itself on the new string
Recurse ==
    /\ pc = "call"
    /\ \E p \in {OnePass(string)} :
          /\ p.step = "recurse"
          /\ string' = p.string
    /\ depth' = depth + 1
    /\ UNCHANGED <<value, pc, exc, rvars, mvars>>

\* lines 44-45, 62: int() or the unbound image_tag raises; no frame catches
Raise ==
    /\ pc = "call"
    /\ \E p \in {OnePass(string)} :
          /\ p.step = "raise"
          /\ exc' = p.exc
    /\ pc' = "raised"
    /\ UNCHANGED <<value, string, depth, rvars, mvars>>

\* line 70: no non-empty span is left; every frame returns the string
Return ==
    /\ pc = "call"
    /\ OnePass(string).step = "return"
    /\ pc' = "returned"
    /\ UNCHANGED <<value, string, depth, exc, rvars, mvars>>

Next == Recurse \/ Raise \/ Return

Spec == Init /\ [][Next]_vars

-----------------------------------------------------------------------------
(* content_from_template as a state machine: one step per field            *)

RenderInit ==
    /\ \E r \in Renders : data = r[1] /\ template = r[2]
    /\ content = template
    /\ visited = 0
    /\ field_value = ""
    /\ rpc = "loop"
    /\ rexc = "none"
    /\ result = ""
    /\ ExpandIdle /\ MainIdle

\* lines 80-81: a field whose name starts with '@' is passed over
SkipSpecial ==
    /\ rpc = "loop" /\ visited < Len(data)
    /\ VisitField(data[visited + 1], content).skipped
    /\ visited' = visited + 1
    /\ UNCHANGED <<data, template, content, field_value, rpc, rexc, result, xvars, mvars>>

\* lines 83-88: the value is expanded and replaces the field's placeholder
Substitute ==
    /\ rpc = "loop" /\ visited < Len(data)
    /\ \E v \in {VisitField(data[visited + 1], content)} :
          /\ ~v.skipped /\ v.exc = "none"
          /\ content' = v.content
          /\ field_value' = v.field_value
    /\ visited' = visited + 1
    /\ UNCHANGED <<data, template, rpc, rexc, result, xvars, mvars>>

\* line 85: the expander raises and nothing here catches it
RenderRaise ==
    /\ rpc = "loop" /\ visited < Len(data)
    /\ \E v \in {VisitField(data[visited + 1], content)} :
          /\ v.exc /= "none"
          /\ rexc' = v.exc
    /\ rpc' = "raised"
    /\ visited' = visited + 1
    /\ UNCHANGED <<data, template, content, field_value, result, xvars, mvars>>

\* line 90
RenderReturn ==
    /\ rpc = "loop" /\ visited = Len(data)
    /\ rpc' = "returned"
    /\ result' = content
    /\ UNCHANGED <<data, template, content, visited, field_value, rexc, xvars, mvars>>

RenderNext == SkipSpecial \/ Substitute \/ RenderRaise \/ RenderReturn

SpecRender == RenderInit /\ [][RenderNext]_vars

-----------------------------------------------------------------------------
(* The card loop of main: one step per row taken and per card generated    *)

MainInit ==
    /\ rows \in AllTables
    /\ row_index = 0 /\ count = 0 /\ i = 0
    /\ cards = <<>> /\ pages = <<>>
    /\ cards_on_page = 0 /\ cards_on_all_pages = 0 /\ pages_total = 0
    /\ mpc = "rows" /\ mexc = "none"
    /\ ExpandIdle /\ RenderIdle

\* lines 207-214: the next row is taken and its count determined
TakeRow ==
    /\ mpc = "rows" /\ row_index < Len(rows)
    /\ \E c \in {RowCount(rows[row_index + 1])} :
          /\ c.exc = "none"
          /\ count' = c.count
    /\ row_index' = row_index + 1
    /\ i' = 0
    /\ mpc' = "cards"
    /\ UNCHANGED <<rows, cards, pages, cards_on_page, cards_on_all_pages,
                   pages_total, mexc, xvars, rvars>>

\* line 210: int() raises on the text of '@count'
CountRaise ==
    /\ mpc = "rows" /\ row_index < Len(rows)
    /\ \E c \in {RowCount(rows[row_index + 1])} :
          /\ c.exc /= "none"
          /\ mexc' = c.exc
    /\ row_index' = row_index + 1
    /\ mpc' = "raised"
    /\ UNCHANGED <<rows, count, i, cards, pages, cards_on_page, cards_on_all_pages,
                   pages_total, xvars, rvars>>

\* lines 216-255: one card of the current row; a full page is emitted
GenerateCard ==
    /\ mpc = "cards" /\ i < count
    /\ \E card \in {CardContent(rows[row_index], default_template, cards_on_all_pages + 1)} :
          /\ card.exc = "none"
          /\ IF cards_on_page + 1 = max_cards_per_page
             THEN /\ pages' = Append(pages, Append(cards, card.content))
                  /\ pages_total' = pages_total + 1
                  /\ cards_on_page' = 0
                  /\ cards' = <<>>
             ELSE /\ cards' = Append(cards, card.content)
                  /\ cards_on_page' = cards_on_page + 1
                  /\ UNCHANGED <<pages, pages_total>>
    /\ cards_on_all_pages' = cards_on_all_pages + 1
    /\ i' = i + 1
    /\ UNCHANGED <<rows, row_index, count, mpc, mexc, xvars, rvars>>

\* line 237: content_from_template raises
CardRaise ==
    /\ mpc = "cards" /\ i < count
    /\ \E card \in {CardContent(rows[row_index], default_template, cards_on_all_pages + 1)} :
          /\ card.exc /= "none"
          /\ mexc' = card.exc
    /\ mpc' = "raised"
    /\ UNCHANGED <<rows, row_index, count, i, cards, pages, cards_on_page,
                   cards_on_all_pages, pages_total, xvars, rvars>>

\* line 216: range(count) is exhausted, the loop over the rows goes on
RowDone ==
    /\ mpc = "cards" /\ i = count
    /\ mpc' = "rows"
    /\ UNCHANGED <<rows, row_index, count, i, cards, pages, cards_on_page,
                   cards_on_all_pages, pages_total, mexc, xvars, rvars>>

\* a variant that emits the page being filled even when it is empty
FinishAlwaysEmitting ==
    /\ mpc = "rows" /\ row_index = Len(rows)
    /\ pages' = Append(pages, cards)
    /\ pages_total' = pages_total + 1
    /\ mpc' = "done"
    /\ UNCHANGED <<rows, row_index, count, i, cards, cards_on_page,
                   cards_on_all_pages, mexc, xvars, rvars>>

\* lines 257-260: after the last row a partly filled page is emitted
Finish ==
    /\ mpc = "rows" /\ row_index = Len(rows)
    /\ IF cards_on_page > 0
       THEN /\ pages' = Append(pages, cards)
            /\ pages_total' = pages_total + 1
       ELSE UNCHANGED <<pages, pages_total>>
    /\ mpc' = "done"
    /\ UNCHANGED <<rows, row_index, count, i, cards, cards_on_page,
                   cards_on_all_pages, mexc, xvars, rvars>>

MainNext == TakeRow \/ CountRaise \/ GenerateCard \/ CardRaise \/ RowDone \/ Finish

SpecMain == MainInit /\ [][MainNext]_vars

-----------------------------------------------------------------------------
(* The claims.  What the claims speak of is stated here on its own terms:  *)
(* spans by the positions of their delimiters, tags by their text.         *)

\* the characters of s are decimal digits, and there is at least one
IsNumeral(s) == Len(s) > 0 /\ \A k \in 0..(Len(s) - 1) : DigitValue(Slice(s, k, k + 1)) >= 0

\* the number of occurrences of the character c in s
CountOf(s, c) == Cardinality({k \in 0..(Len(s) - 1) : Slice(s, k, k + 1) = c})

\* the index of the last ':' of s, -1 when s has none
LastColon(s) ==
    IF CountOf(s, ":") = 0 THEN -1
    ELSE CHOOSE k \in 0..(Len(s) - 1) :
           /\ Slice(s, k, k + 1) = ":"
           /\ \A j \in (k + 1)..(Len(s) - 1) : Slice(s, j, j + 1) /= ":"

\* the text after the last ':' of s
SizeSuffix(s) == Slice(s, LastColon(s) + 1, Len(s))

\* the text of s before, and after, its only 'x'
BeforeX(s) == Slice(s, 0, CHOOSE k \in 0..(Len(s) - 1) : Slice(s, k, k + 1) = "x")
AfterX(s) == Slice(s, (CHOOSE k \in 0..(Len(s) - 1) : Slice(s, k, k + 1) = "x") + 1, Len(s))

\* s contains a span: a "{{" and, after it, a "}}"
ContainsSpan(s) ==
    \E a \in 0..Len(s), b \in 0..Len(s) : b >= a + 2 /\ OccursAt(s, "{{", a) /\ OccursAt(s, "}}", b)

\* s contains sub
Contains(s, sub) == \E a \in 0..Len(s) : OccursAt(s, sub, a)

\* the span the first activation acts on
HasImage(s) == FirstImage(finditer(s)) /= <<>>
Image(s) == FirstImage(finditer(s))[1]
BeforeImage(s) == Slice(s, 0, Image(s).start)
AfterImage(s) == Slice(s, Image(s).end, Len(s))

\* the inner text is PATH:WxH with W and H numerals
IsSizedInner(inner) ==
    /\ LastColon(inner) /= -1
    /\ CountOf(SizeSuffix(inner), "x") = 1
    /\ IsNumeral(BeforeX(SizeSuffix(inner)))
    /\ IsNumeral(AfterX(SizeSuffix(inner)))

\* the tag the claims give for a sized inner text, the numerals read as
\* numbers
SizedTagOf(inner) ==
    "<img src=\"" \o Slice(inner, 0, LastColon(inner))
    \o "\" width=\"" \o str(int(BeforeX(SizeSuffix(inner))).val)
    \o "\" height=\"" \o str(int(AfterX(SizeSuffix(inner))).val) \o "\">"

\* the no-size tag
PlainTagOf(inner) == "<img src=\"" \o inner \o "\">"

\* C5: the first non-empty span of a value, when its inner text is
\* PATH:WxH with W and H non-negative integers after the last ':', is
\* replaced, delimiters included, by <img src="PATH" width="W" height="H">,
\* and when its inner text has no ':' by <img src="INNER">; the activation
\* does not raise.
C5_SpanBecomesTag ==
    (HasImage(value) /\ (IsSizedInner(Image(value).group) \/ LastColon(Image(value).group) = -1))
    => /\ depth = 0 => pc = "call"
       /\ depth = 1 =>
            string = BeforeImage(value)
                     \o (IF LastColon(Image(value).group) = -1
                         THEN PlainTagOf(Image(value).group)
                         ELSE SizedTagOf(Image(value).group))
                     \o AfterImage(value)

\* C5: a span whose path holds a ':' and whose sizes differ has been replaced
C5_Witness ==
    /\ depth = 1
    /\ value = "{{b:c:2x13}}t"
    /\ string = "<img src=\"b:c\" width=\"2\" height=\"13\">t"

\* the inner text has a ':' but the text after the last ':' gives no two
\* usable dimensions: it does not split on 'x' into exactly two parts, or
\* one of the two is a negative number
IsUnsizedInner(inner) ==
    /\ LastColon(inner) /= -1
    /\ \/ CountOf(SizeSuffix(inner), "x") /= 1
       \/ /\ ~int(BeforeX(SizeSuffix(inner))).raised
          /\ ~int(AfterX(SizeSuffix(inner))).raised
          /\ \/ int(BeforeX(SizeSuffix(inner))).val < 0
             \/ int(AfterX(SizeSuffix(inner))).val < 0

\* C4: when the inner text of the span has a ':' that is followed by no two
\* usable dimensions, the activation does not fail and replaces the span by
\* the no-size tag <img src="INNER">.
C4_DegradesToPlainTag ==
    (HasImage(value) /\ IsUnsizedInner(Image(value).group))
    => /\ depth = 0 => pc = "call"
       /\ depth = 1 =>
            string = BeforeImage(value) \o PlainTagOf(Image(value).group) \o AfterImage(value)

\* the value with every non-empty span of its left-to-right scan replaced by
\* its tag, the empty spans and the text outside the spans kept
RewrittenFrom[s \in STRING, k \in Nat] ==
    IF k > Len(finditer(s)) THEN ""
    ELSE (IF Len(finditer(s)[k].group) = 0 THEN "{{}}"
          ELSE image_tag(finditer(s)[k].group).tag)
         \o Slice(s, finditer(s)[k].end,
                  IF k = Len(finditer(s)) THEN Len(s) ELSE finditer(s)[k + 1].start)
         \o RewrittenFrom[s, k + 1]

ScanRewrite(s) ==
    IF finditer(s) = <<>> THEN s
    ELSE Slice(s, 0, finditer(s)[1].start) \o RewrittenFrom[s, 1]

\* the non-empty spans of the scan whose tag cannot be built, in scan order
FailingSpans(s) ==
    {k \in 1..Len(finditer(s)) :
        Len(finditer(s)[k].group) > 0 /\ image_tag(finditer(s)[k].group).exc /= "none"}

\* no non-empty span of the scan holds a "{{" in its inner text
NoOpeningInside(s) ==
    \A k \in 1..Len(finditer(s)) : ~Contains(finditer(s)[k].group, "{{")

\* C7 as stated: the returned string is the value with every non-empty span
\* of its left-to-right scan replaced by its tag and everything else kept.
C7_EverySpanExpanded == pc = "returned" => string = ScanRewrite(value)

\* C7, amended: for a value in which no span's inner text contains "{{",
\* the function returns exactly when the tag of every non-empty span can be
\* built, and then returns the value with every non-empty span of the scan
\* replaced by its tag, empty spans and outside text kept; otherwise the
\* exception of the leftmost span whose tag cannot be built escapes.
C7_SpansExpandedInOrder ==
    NoOpeningInside(value)
    => /\ pc = "returned" => FailingSpans(value) = {} /\ string = ScanRewrite(value)
       /\ pc = "raised" =>
            /\ FailingSpans(value) /= {}
            /\ exc = image_tag(finditer(value)[CHOOSE k \in FailingSpans(value) :
                                   \A j \in FailingSpans(value) : k <= j].group).exc

\* C7: the documented value with two spans has been expanded in two passes
C7_Witness ==
    /\ pc = "returned" /\ depth = 2
    /\ value = "{{img/a.png}} and {{img/b.png:8x8}}"
    /\ string = "<img src=\"img/a.png\"> and <img src=\"img/b.png\" width=\"8\" height=\"8\">"

\* C8: the passes end (each removes the two '{' of a span's delimiter, so
\* there are at most half as many passes as '{' in the value), and what is
\* returned holds no non-empty span: expanding it again returns it as it is.
C8_Fixpoint ==
    /\ 2 * depth + CountOf(string, "{") <= CountOf(value, "{")
    /\ pc = "returned" =>
         /\ \A k \in 1..Len(finditer(string)) : Len(finditer(string)[k].group) = 0
         /\ replace_image_fields_with_image_tags(string) = [exc |-> "none", string |-> string]
         /\ replace_image_fields_with_image_tags(value) = [exc |-> "none", string |-> string]

\* C8: a value whose tag gave rise to a further span has been expanded to
\* its fixpoint
C8_Witness ==
    /\ pc = "returned" /\ depth = 2
    /\ value = "{{{{}}}}"
    /\ string = "<img src=\"<img src=\"\">\">"

-----------------------------------------------------------------------------
(* Claims about content_from_template                                      *)

NoSpanInValues(record) == \A k \in 1..Len(record) : ~ContainsSpan(FieldText(record[k]))

\* for each field in record order whose name does not start with '@', every
\* {{name}} is replaced by the field's text
PlainlySubstituted[record \in Seq(STRING \X STRING), text \in STRING, k \in Nat] ==
    IF k > Len(record) THEN text
    ELSE IF Slice(record[k][1], 0, 1) = "@" THEN PlainlySubstituted[record, text, k + 1]
    ELSE PlainlySubstituted[record, replace(text, "{{" \o record[k][1] \o "}}", record[k][2]),
                            k + 1]

\* C1: when no field value contains a span, the render raises nothing and
\* returns the template with, for each field in record order whose name
\* does not start with '@', every {{name}} replaced by the field's text;
\* the '@' fields are passed over.
C1_PlainSubstitution ==
    NoSpanInValues(data)
    => /\ rpc /= "raised"
       /\ rpc = "returned" => result = PlainlySubstituted[data, template, 1]

\* C1: a record with an '@' field and a span-free value has been rendered
\* into a template that names them
C1_Witness ==
    /\ rpc = "returned"
    /\ data = << <<"@c", "Z">>, <<"a", "{{b">> >>
    /\ template = "{{@c}}{{a}}"
    /\ result = "{{@c}}{{b"

DocumentedRecord(art) == << <<"name", "Ace">>, <<"art", art>> >>

\* C2 as stated: a bare image path, without delimiters, becomes an image tag.
C2_BarePathBecomesTag ==
    /\ (data = << <<"art", "a/b.svg:16x16">> >> /\ visited = 1)
       => field_value = "<img src=\"a/b.svg\" width=\"16\" height=\"16\">"
    /\ (data = << <<"art", "a/b.svg">> >> /\ visited = 1)
       => field_value = "<img src=\"a/b.svg\">"
    /\ (data = DocumentedRecord("cards/ace.png:32x32") /\ rpc = "returned")
       => result = "Name: Ace, Art: <img src=\"cards/ace.png\" width=\"32\" height=\"32\">"

\* C2, amended: an image path becomes an image tag when it stands between
\* {{ and }}; a bare path is substituted as it is.
C2_DelimitedPathBecomesTag ==
    /\ (data = << <<"art", "{{a/b.svg:16x16}}">> >> /\ visited = 1)
       => field_value = "<img src=\"a/b.svg\" width=\"16\" height=\"16\">"
    /\ (data = << <<"art", "{{a/b.svg}}">> >> /\ visited = 1)
       => field_value = "<img src=\"a/b.svg\">"
    /\ (data = DocumentedRecord("{{cards/ace.png:32x32}}") /\ rpc = "returned")
       => result = "Name: Ace, Art: <img src=\"cards/ace.png\" width=\"32\" height=\"32\">"
    /\ (data = << <<"art", "a/b.svg:16x16">> >> /\ visited = 1)
       => field_value = "a/b.svg:16x16"
    /\ (data = << <<"art", "a/b.svg">> >> /\ visited = 1)
       => field_value = "a/b.svg"
    /\ (data = DocumentedRecord("cards/ace.png:32x32") /\ rpc = "returned")
       => result = "Name: Ace, Art: cards/ace.png:32x32"

\* C2: the documented record, its path delimited, has been rendered
C2_Witness ==
    /\ rpc = "returned"
    /\ data = DocumentedRecord("{{cards/ace.png:32x32}}")
    /\ template = "Name: {{name}}, Art: {{art}}"
    /\ result = "Name: Ace, Art: <img src=\"cards/ace.png\" width=\"32\" height=\"32\">"

\* the template holds {{name}} for no field of the record whose name does
\* not start with '@'
NoFieldPlaceholder(record, text) ==
    \A k \in 1..Len(record) :
        Slice(record[k][1], 0, 1) /= "@" => ~Contains(text, "{{" \o record[k][1] \o "}}")

\* the fields, not starting with '@', whose value the expander fails on
FailingFields(record) ==
    {k \in 1..Len(record) :
        /\ Slice(record[k][1], 0, 1) /= "@"
        /\ replace_image_fields_with_image_tags(record[k][2]).exc /= "none"}

\* C3 as stated: when the template holds no placeholder of a field of the
\* record, the render raises nothing and returns the template unchanged,
\* whatever the field values.
C3_UnmatchedNeverFails ==
    NoFieldPlaceholder(data, template)
    => /\ rpc /= "raised"
       /\ rpc = "returned" => result = template

\* C3, amended: when the template holds no placeholder of a field of the
\* record, the content stays the template; the render returns it unchanged
\* if the expander fails on no field value, and otherwise the expander's
\* exception for the first such field escapes.
C3_UnmatchedLeftVerbatim ==
    NoFieldPlaceholder(data, template)
    => /\ content = template
       /\ rpc = "returned" => result = template /\ FailingFields(data) = {}
       /\ rpc = "raised" =>
            /\ FailingFields(data) /= {}
            /\ visited = CHOOSE k \in FailingFields(data) : \A j \in FailingFields(data) : k <= j
            /\ rexc = replace_image_fields_with_image_tags(data[visited][2]).exc

\* C3: a template with placeholders that match no field has been returned
\* for a record whose values hold a span
C3_Witness ==
    /\ rpc = "returned"
    /\ data = << <<"a", "{{p:2x13}}">>, <<"@c", "Z">> >>
    /\ template = "{{b}}{{@c}}"
    /\ result = "{{b}}{{@c}}"

\* the text is one span {{...:AxB...}} in which A or B is not an integer
IsMalformedSize(text) ==
    /\ Len(text) >= 4 /\ OccursAt(text, "{{", 0) /\ OccursAt(text, "}}", Len(text) - 2)
    /\ ~Contains(Slice(text, 2, Len(text) - 2), "}}")
    /\ LastColon(Slice(text, 2, Len(text) - 2)) /= -1
    /\ Len(split(SizeSuffix(Slice(text, 2, Len(text) - 2)), "x")) > 1
    /\ \/ int(split(SizeSuffix(Slice(text, 2, Len(text) - 2)), "x")[1]).raised
       \/ int(split(SizeSuffix(Slice(text, 2, Len(text) - 2)), "x")[2]).raised

\* C6: a field value whose size texts are not integers makes the render
\* fail with ValueError when the field is visited: no content is returned
\* for a record with such a field, neither whole nor partly substituted.
C6_MalformedSizeAborts ==
    /\ rpc = "returned" =>
         \A k \in 1..Len(data) :
            Slice(data[k][1], 0, 1) /= "@" => ~IsMalformedSize(data[k][2])
    /\ (rpc = "loop" /\ visited >= 1 /\ Slice(data[visited][1], 0, 1) /= "@")
       => ~IsMalformedSize(data[visited][2])
    /\ (rpc = "raised" /\ IsMalformedSize(data[visited][2]))
       => rexc = "ValueError" /\ result = ""

\* C6: the documented malformed value has aborted the render
C6_Witness ==
    /\ rpc = "raised" /\ rexc = "ValueError" /\ visited = 1 /\ result = ""
    /\ data = << <<"art", "{{a/b.svg:abcxdef}}">>, <<"name", "Ace">> >>

-----------------------------------------------------------------------------
(* Claims about the card loop of main                                      *)

\* the number of cards the claim gives for a row: 1 when '@count' is absent
\* or not a number, 0 when it is negative, the number otherwise
ClaimedCount(row) ==
    IF ~HasField(row, "@count") THEN 1
    ELSE IF int(GetField(row, "@count")).raised THEN 1
    ELSE IF int(GetField(row, "@count")).val < 0 THEN 0
    ELSE int(GetField(row, "@count")).val

\* C9: each row gives the number of cards its '@count' stands for: taking
\* the row raises nothing, the count is the claimed one, and when the row is
\* done that many cards have been generated for it.
C9_CardsPerRow ==
    row_index >= 1
    => /\ mpc = "raised" => mexc /= "ValueError"
       /\ mpc = "cards" => count = ClaimedCount(rows[row_index]) /\ i <= count
       /\ mpc \in {"rows", "done"} => i = ClaimedCount(rows[row_index])

RECURSIVE Flattened(_)
Flattened(pp) == IF pp = <<>> THEN <<>> ELSE Head(pp) \o Flattened(Tail(pp))

\* the cards generated so far, in the order the pages and the page being
\* filled hold them
GeneratedCards == Flattened(pages) \o (IF mpc = "done" THEN <<>> ELSE cards)

\* C10: the generated cards lie on the pages in generation order with card
\* indices 1, 2, ...; every page holds 1 to 9 cards and every page but the
\* last exactly 9; 0 <= cards_on_page < 9 between the steps; at the end
\* pages_total is the number of cards divided by 9, rounded up.
C10_Pagination ==
    /\ cards_on_page >= 0 /\ cards_on_page < max_cards_per_page
    /\ mpc /= "done" => cards_on_page = Len(cards)
    /\ pages_total = Len(pages)
    /\ \A p \in 1..Len(pages) :
          /\ Len(pages[p]) >= 1 /\ Len(pages[p]) <= max_cards_per_page
          /\ p < Len(pages) => Len(pages[p]) = max_cards_per_page
    /\ Len(GeneratedCards) = cards_on_all_pages
    /\ \A k \in 1..Len(GeneratedCards) : GeneratedCards[k] = "A #" \o str(k) \o " "
    /\ mpc = "done" => pages_total = (cards_on_all_pages + max_cards_per_page - 1) \div max_cards_per_page

\* C10: twenty cards have been laid on three pages, the last one part filled
C10_Witness ==
    /\ mpc = "done"
    /\ cards_on_all_pages = 20
    /\ pages_total = 3
    /\ Len(pages[3]) = 2

====
